---- MODULE Spec2Model ----
(***************************************************************************)
(* dsync: generation of diesel model structs and CRUD functions from a     *)
(* parsed schema (src/src/code.rs), the command line driver                 *)
(* (src/src/bin/main.rs) and the paginate function the generator emits.    *)
(*                                                                         *)
(* Rust strings whose characters the code inspects or rewrites (type       *)
(* names) are sequences of one-character strings; identifiers that are     *)
(* only compared (column, table and struct names, derive names) are TLA+   *)
(* strings.  Generated text is kept as the ordered pieces that the format  *)
(* templates splice together.                                              *)
(***************************************************************************)
EXTENDS Integers, Sequences, FiniteSets, TLC

VARIABLES
    table,           \* the ParsedTableMacro being generated
    config,          \* the GenerationConfig of the run
    pc,              \* position of the modelled operation
    read_struct,     \* Struct::new(StructType::Read, ..)
    create_struct,   \* Struct::new(StructType::Create, ..)
    update_struct,   \* Struct::new(StructType::Update, ..)
    ret_buffer,      \* the text generate_for_table returns, piece by piece
    generated,       \* the calls of generate_for_table of this run so far, with their results
    files,           \* the output directory: path -> Option<content>
    prior,           \* the output directory as it was when the current run began
    changes,         \* the FileChange list generate_files has built so far
    printed,         \* the "{status} {file}" lines actual_main printed
    modified,        \* actual_main's count of changes that are not Unchanged
    schema,          \* the tables of the schema of the current run, in order
    next_table,      \* index in schema of the table generate_files handles next
    run_config,      \* the configuration of the current run
    last_run,        \* Option<(schema, configuration)> of the run completed last
    repeat,          \* the current run repeats the last one on an untouched directory
    page,            \* paginate: argument page
    page_size,       \* paginate: argument page_size
    total_items,     \* paginate: number of rows the count query finds
    result           \* paginate: what the call produced

vars == <<table, config, pc, read_struct, create_struct, update_struct, ret_buffer,
          generated, files, prior, changes, printed, modified, schema, next_table, run_config,
          last_run, repeat,
          page, page_size, total_items, result>>

genVars == <<table, config, read_struct, create_struct, update_struct, ret_buffer,
            generated>>
fsVars == <<files, prior, changes, printed, modified, schema, next_table, run_config,
           last_run, repeat>>
pageVars == <<page, page_size, total_items, result>>

(***************************************************************************)
(* Bounds of the model.                                                    *)
(***************************************************************************)
MaxCols == 3       \* columns per table
MaxPk == 2         \* primary-key columns per table
IntBits == 5       \* width of the integers of paginate, standing for the 64 of i64
MaxRun == 3        \* calls of generate_for_table in one run

(***************************************************************************)
(* Type names as character sequences.                                      *)
(***************************************************************************)
T_i32 == <<"i", "3", "2">>
T_i64 == <<"i", "6", "4">>
T_bool == <<"b", "o", "o", "l">>
T_String == <<"S", "t", "r", "i", "n", "g">>
T_VecU8 == <<"V", "e", "c", "<", "u", "8", ">">>

OptionPrefix == <<"O", "p", "t", "i", "o", "n", "<">>

Option(t) == OptionPrefix \o t \o <<">">>

\* str::starts_with
starts_with(s, p) == Len(s) >= Len(p) /\ SubSeq(s, 1, Len(p)) = p

Vec(t) == <<"V", "e", "c", "<">> \o t \o <<">">>

\* str::replace('i', "u")
replace_i_u(s) == [k \in 1..Len(s) |-> IF s[k] = "i" THEN "u" ELSE s[k]]

Range(s) == {s[k] : k \in 1..Len(s)}

StructType == {"Read", "Update", "Create"}

prefix(ty) ==
    CASE ty = "Read" -> ""
      [] ty = "Update" -> "Update"
      [] ty = "Create" -> "Create"

\* StructType::suffix
suffix(ty) == ""

\* A formatted string as the sequence of its non-empty pieces.
Text(pieces) == SelectSeq(pieces, LAMBDA x : x # "")

\* StructType::format: prefix, name, suffix
format(ty, name) == Text(<<prefix(ty), name, suffix(ty)>>)

(***************************************************************************)
(* Option<T> of the Rust code: <<>> is None, <<x>> is Some(x).             *)
(***************************************************************************)
Some(x) == <<x>>

is_some(o) == o # <<>>

unwrap(o) == o[1]

(***************************************************************************)
(* StringType and BytesType: the configured representation of string and   *)
(* byte fields in Create and Update structs.                               *)
(***************************************************************************)
StringTypes == {"String", "Str", "Cow"}

BytesTypes == {"Vec", "Slice", "Cow"}

\* StringType::as_str
str_as_str(t) ==
    CASE t = "String" -> T_String
      [] t = "Str" -> <<"&", "'", "a", " ", "s", "t", "r">>
      [] t = "Cow" -> <<"C", "o", "w", "<", "'", "a", ",", " ", "s", "t", "r", ">">>

\* StringType::get_lifetime
str_get_lifetime(t) == IF t = "String" THEN <<>> ELSE <<"'", "a">>

\* BytesType::as_str
bytes_as_str(t) ==
    CASE t = "Vec" -> T_VecU8
      [] t = "Slice" -> <<"&", "'", "a", " ", "[", "u", "8", "]">>
      [] t = "Cow" -> <<"C", "o", "w", "<", "'", "a", ",", " ", "[", "u", "8", "]", ">">>

\* BytesType::get_lifetime
bytes_get_lifetime(t) == IF t = "Vec" THEN <<>> ELSE <<"'", "a">>

(***************************************************************************)
(* StructField                                                             *)
(***************************************************************************)
\* StructField::to_rust_type: array first, then nullable
to_rust_type(f) ==
    LET vec_type == IF f.is_vec THEN Vec(Option(f.base_type)) ELSE f.base_type
    IN  IF f.is_optional THEN Option(vec_type) ELSE vec_type

\* impl From<&ParsedColumnMacro> for StructField
StructField_from(value) ==
    [name |-> value.name,
     base_type |-> IF value.is_unsigned THEN replace_i_u(value.ty) ELSE value.ty,
     is_optional |-> value.is_nullable,
     is_vec |-> value.is_array,
     column_name |-> value.column_name]

(***************************************************************************)
(* Struct: self is the record of the fields of the Rust struct.            *)
(***************************************************************************)
\* Struct::attr_tsync
attr_tsync(self) ==
    IF self.config.features.tsync /\ self.opts.tsync THEN "#[tsync::tsync]" ELSE ""

\* fields with the primary-key columns dropped from the Create struct as well
fields_create_without_pk(self) ==
    LET keep(c) ==
            LET is_autogenerated == c.name \in self.opts.autogenerated_columns
                is_pk == c.name \in Range(self.table.primary_key_columns)
            IN  CASE self.ty = "Read" -> TRUE
                  [] self.ty = "Update" -> ~is_pk
                  [] self.ty = "Create" -> ~is_autogenerated /\ ~is_pk
        kept == SelectSeq(self.table.columns, keep)
    IN  [k \in 1..Len(kept) |-> StructField_from(kept[k])]

\* fields with the autogenerated columns dropped from the Update struct as well
fields_update_without_autogenerated(self) ==
    LET keep(c) ==
            LET is_autogenerated == c.name \in self.opts.autogenerated_columns
                is_pk == c.name \in Range(self.table.primary_key_columns)
            IN  CASE self.ty = "Read" -> TRUE
                  [] self.ty = "Update" -> ~is_pk /\ ~is_autogenerated
                  [] self.ty = "Create" -> ~is_autogenerated
        kept == SelectSeq(self.table.columns, keep)
    IN  [k \in 1..Len(kept) |-> StructField_from(kept[k])]

\* fields with the primary-key columns kept in the Update struct
fields_update_all_columns(self) ==
    LET keep(c) ==
            LET is_autogenerated == c.name \in self.opts.autogenerated_columns
            IN  CASE self.ty = "Read" -> TRUE
                  [] self.ty = "Update" -> TRUE
                  [] self.ty = "Create" -> ~is_autogenerated
        kept == SelectSeq(self.table.columns, keep)
    IN  [k \in 1..Len(kept) |-> StructField_from(kept[k])]

\* Struct::fields
fields(self) ==
    LET keep(c) ==
            LET is_autogenerated == c.name \in self.opts.autogenerated_columns
            IN  CASE self.ty = "Read" -> TRUE
                  [] self.ty = "Update" ->
                        LET is_pk == c.name \in Range(self.table.primary_key_columns)
                        IN  ~is_pk
                  [] self.ty = "Create" -> ~is_autogenerated
        kept == SelectSeq(self.table.columns, keep)
    IN  [k \in 1..Len(kept) |-> StructField_from(kept[k])]

\* attr_derive with derives_vec kept from the call before instead of built afresh
attr_derive_kept_buffer(self) ==
    LET kept == IF generated = <<>> THEN <<>>
                ELSE generated[Len(generated)].read_derives
        base == kept \o <<"Debug", "Clone">>
        serde == IF self.opts.serde
                 THEN <<"serde::Serialize", "serde::Deserialize">> ELSE <<>>
        fs == fields(self)
        by_ty ==
            CASE self.ty = "Read" ->
                    <<"diesel::Queryable", "diesel::Selectable">>
                    \o (IF self.config.features.derive_queryablebyname
                        THEN <<"diesel::QueryableByName">> ELSE <<>>)
                    \o <<"PartialEq">>
                    \o (IF self.table.foreign_keys # <<>>
                        THEN <<"diesel::Associations", "diesel::Identifiable">>
                        ELSE IF self.table.primary_key_columns # <<>>
                             THEN <<"diesel::Identifiable">>
                             ELSE <<>>)
              [] self.ty = "Update" ->
                    (IF ~(\A k \in 1..Len(fs) :
                             fs[k].name \in Range(self.table.primary_key_columns))
                     THEN <<"diesel::AsChangeset", "PartialEq">> ELSE <<>>)
                    \o <<"Default">>
              [] self.ty = "Create" -> <<"diesel::Insertable">>
    IN  base \o serde \o by_ty

\* attr_derive that looks at the primary key before the foreign keys
attr_derive_primary_key_first(self) ==
    LET base == <<"Debug", "Clone">>
        serde == IF self.opts.serde
                 THEN <<"serde::Serialize", "serde::Deserialize">> ELSE <<>>
        fs == fields(self)
        by_ty ==
            CASE self.ty = "Read" ->
                    <<"diesel::Queryable", "diesel::Selectable">>
                    \o (IF self.config.features.derive_queryablebyname
                        THEN <<"diesel::QueryableByName">> ELSE <<>>)
                    \o <<"PartialEq">>
                    \o (IF self.table.primary_key_columns # <<>>
                        THEN <<"diesel::Identifiable">>
                        ELSE IF self.table.foreign_keys # <<>>
                             THEN <<"diesel::Associations", "diesel::Identifiable">>
                             ELSE <<>>)
              [] self.ty = "Update" ->
                    (IF ~(\A k \in 1..Len(fs) :
                             fs[k].name \in Range(self.table.primary_key_columns))
                     THEN <<"diesel::AsChangeset", "PartialEq">> ELSE <<>>)
                    \o <<"Default">>
              [] self.ty = "Create" -> <<"diesel::Insertable">>
    IN  base \o serde \o by_ty

\* attr_derive with the serde derives on the Read struct only
attr_derive_serde_on_read_only(self) ==
    LET base == <<"Debug", "Clone">>
        serde == IF self.opts.serde /\ self.ty = "Read"
                 THEN <<"serde::Serialize", "serde::Deserialize">> ELSE <<>>
        fs == fields(self)
        by_ty ==
            CASE self.ty = "Read" ->
                    <<"diesel::Queryable", "diesel::Selectable">>
                    \o (IF self.config.features.derive_queryablebyname
                        THEN <<"diesel::QueryableByName">> ELSE <<>>)
                    \o <<"PartialEq">>
                    \o (IF self.table.foreign_keys # <<>>
                        THEN <<"diesel::Associations", "diesel::Identifiable">>
                        ELSE IF self.table.primary_key_columns # <<>>
                             THEN <<"diesel::Identifiable">>
                             ELSE <<>>)
              [] self.ty = "Update" ->
                    (IF ~(\A k \in 1..Len(fs) :
                             fs[k].name \in Range(self.table.primary_key_columns))
                     THEN <<"diesel::AsChangeset", "PartialEq">> ELSE <<>>)
                    \o <<"Default">>
              [] self.ty = "Create" -> <<"diesel::Insertable">>
    IN  base \o serde \o by_ty

\* Struct::attr_derive
attr_derive(self) ==
    LET base == <<"Debug", "Clone">>
        serde == IF self.opts.serde
                 THEN <<"serde::Serialize", "serde::Deserialize">> ELSE <<>>
        fs == fields(self)
        by_ty ==
            CASE self.ty = "Read" ->
                    <<"diesel::Queryable", "diesel::Selectable">>
                    \o (IF self.config.features.derive_queryablebyname
                        THEN <<"diesel::QueryableByName">> ELSE <<>>)
                    \o <<"PartialEq">>
                    \o (IF self.table.foreign_keys # <<>>
                        THEN <<"diesel::Associations", "diesel::Identifiable">>
                        ELSE IF self.table.primary_key_columns # <<>>
                             THEN <<"diesel::Identifiable">>
                             ELSE <<>>)
              [] self.ty = "Update" ->
                    (IF ~(\A k \in 1..Len(fs) :
                             fs[k].name \in Range(self.table.primary_key_columns))
                     THEN <<"diesel::AsChangeset", "PartialEq">> ELSE <<>>)
                    \o <<"Default">>
              [] self.ty = "Create" -> <<"diesel::Insertable">>
    IN  base \o serde \o by_ty

\* the `lifetimes` block of Struct::render: the longer of the string and the
\* byte lifetime (max_by_key keeps the last of equally long ones)
render_lifetimes(self) ==
    LET s_lifetimes ==
            CASE self.ty = "Read" -> <<>>
              [] self.ty = "Update" -> str_get_lifetime(self.opts.update_str_type)
              [] self.ty = "Create" -> str_get_lifetime(self.opts.create_str_type)
        b_lifetimes ==
            CASE self.ty = "Read" -> <<>>
              [] self.ty = "Update" -> bytes_get_lifetime(self.opts.update_bytes_type)
              [] self.ty = "Create" -> bytes_get_lifetime(self.opts.create_bytes_type)
        lifetimes == IF Len(b_lifetimes) >= Len(s_lifetimes) THEN b_lifetimes ELSE s_lifetimes
    IN  IF lifetimes = <<>> THEN <<>> ELSE <<"<">> \o lifetimes \o <<">">>

\* render_field with flat options: an Update field that is already an Option gets no
\* further layer
render_field_flat_option(self, f0) ==
    LET base_type ==
            IF f0.base_type = T_String
            THEN CASE self.ty = "Read" -> f0.base_type
                   [] self.ty = "Update" -> str_as_str(self.opts.update_str_type)
                   [] self.ty = "Create" -> str_as_str(self.opts.create_str_type)
            ELSE IF f0.base_type = T_VecU8
            THEN CASE self.ty = "Read" -> f0.base_type
                   [] self.ty = "Update" -> bytes_as_str(self.opts.update_bytes_type)
                   [] self.ty = "Create" -> bytes_as_str(self.opts.create_bytes_type)
            ELSE f0.base_type
        f == [f0 EXCEPT !.base_type = base_type]
        field_type == IF self.ty = "Update" /\ ~f.is_optional
                      THEN Option(to_rust_type(f)) ELSE to_rust_type(f)
    IN  [column_name |-> f.column_name, field_name |-> f.name, field_type |-> field_type]

\* render_field with one choice of representation for both structs: the Create struct
\* takes the representations configured for the Update struct
render_field_shared_choice(self, f0) ==
    LET base_type ==
            IF f0.base_type = T_String
            THEN CASE self.ty = "Read" -> f0.base_type
                   [] self.ty = "Update" -> str_as_str(self.opts.update_str_type)
                   [] self.ty = "Create" -> str_as_str(self.opts.update_str_type)
            ELSE IF f0.base_type = T_VecU8
            THEN CASE self.ty = "Read" -> f0.base_type
                   [] self.ty = "Update" -> bytes_as_str(self.opts.update_bytes_type)
                   [] self.ty = "Create" -> bytes_as_str(self.opts.update_bytes_type)
            ELSE f0.base_type
        f == [f0 EXCEPT !.base_type = base_type]
        field_type == IF self.ty = "Update" THEN Option(to_rust_type(f)) ELSE to_rust_type(f)
    IN  [column_name |-> f.column_name, field_name |-> f.name, field_type |-> field_type]

\* the body of the `for mut f in fields` loop of Struct::render: one field line
render_field(self, f0) ==
    LET base_type ==
            IF f0.base_type = T_String
            THEN CASE self.ty = "Read" -> f0.base_type
                   [] self.ty = "Update" -> str_as_str(self.opts.update_str_type)
                   [] self.ty = "Create" -> str_as_str(self.opts.create_str_type)
            ELSE IF f0.base_type = T_VecU8
            THEN CASE self.ty = "Read" -> f0.base_type
                   [] self.ty = "Update" -> bytes_as_str(self.opts.update_bytes_type)
                   [] self.ty = "Create" -> bytes_as_str(self.opts.create_bytes_type)
            ELSE f0.base_type
        f == [f0 EXCEPT !.base_type = base_type]
        field_type == IF self.ty = "Update" THEN Option(to_rust_type(f)) ELSE to_rust_type(f)
    IN  [column_name |-> f.column_name, field_name |-> f.name, field_type |-> field_type]

\* render without the check for an empty field list: a struct without fields is
\* rendered like any other
render_without_empty_check(self) ==
    IF self.opts.readonly /\ self.ty \in {"Update", "Create"}
    THEN [self EXCEPT !.has_fields = Some(FALSE), !.rendered_code = <<>>]
    ELSE
    LET fs == fields(self)
        struct_code ==
            [doccomment |-> self.ty,
             tsync_attr |-> attr_tsync(self),
             derive_attr |-> attr_derive(self),
             table_name |-> self.table.name,
             primary_key |-> IF self.ty # "Read" THEN <<>>
                             ELSE Some(self.table.primary_key_columns),
             belongs_to |-> IF self.ty # "Read" THEN <<>>
                            ELSE self.table.foreign_keys,
             struct_name |-> format(self.ty, self.table.struct_name),
             lifetimes |-> render_lifetimes(self),
             lines |-> [k \in 1..Len(fs) |-> render_field(self, fs[k])]]
    IN  [self EXCEPT !.has_fields = Some(TRUE), !.rendered_code = Some(struct_code)]

\* Struct::render
render(self) ==
    IF self.opts.readonly /\ self.ty \in {"Update", "Create"}
    THEN [self EXCEPT !.has_fields = Some(FALSE), !.rendered_code = <<>>]
    ELSE
    LET fs == fields(self)
    IN  IF fs = <<>>
        THEN [self EXCEPT !.has_fields = Some(FALSE), !.rendered_code = <<>>]
        ELSE
        LET struct_code ==
                [doccomment |-> self.ty,
                 tsync_attr |-> attr_tsync(self),
                 derive_attr |-> attr_derive(self),
                 table_name |-> self.table.name,
                 primary_key |-> IF self.ty # "Read" THEN <<>>
                                 ELSE Some(self.table.primary_key_columns),
                 belongs_to |-> IF self.ty # "Read" THEN <<>>
                                ELSE self.table.foreign_keys,
                 struct_name |-> format(self.ty, self.table.struct_name),
                 lifetimes |-> render_lifetimes(self),
                 lines |-> [k \in 1..Len(fs) |-> render_field(self, fs[k])]]
        IN  [self EXCEPT !.has_fields = Some(TRUE), !.rendered_code = Some(struct_code)]

\* Struct::new with the readonly flag lost from the struct's table options
Struct_new_readonly_lost(ty, tbl, cfg) ==
    render([identifier |-> format(ty, tbl.struct_name),
            opts |-> [cfg.table_options EXCEPT !.readonly = FALSE],
            table |-> tbl,
            ty |-> ty,
            config |-> cfg,
            rendered_code |-> <<>>,
            has_fields |-> <<>>])

\* Struct::new
Struct_new(ty, tbl, cfg) ==
    render([identifier |-> format(ty, tbl.struct_name),
            opts |-> cfg.table_options,
            table |-> tbl,
            ty |-> ty,
            config |-> cfg,
            rendered_code |-> <<>>,
            has_fields |-> <<>>])

\* Struct::has_code
has_code(self) == is_some(self.rendered_code)

\* has_fields answered from the table's columns instead of the variant's fields
has_fields_from_table(self) == self.table.columns # <<>>

\* Struct::has_fields
has_fields(self) == unwrap(self.has_fields)

(***************************************************************************)
(* The functions of the impl block.                                        *)
(***************************************************************************)
\* get_async that marks the functions async and forgets the await
get_async_without_await(table_options, feature_async) ==
    IF feature_async /\ table_options.async THEN <<" async", "">> ELSE <<"", "">>

\* get_async: (async_keyword, await_keyword); the async branch exists only in a
\* build with the feature "async"
get_async(table_options, feature_async) ==
    IF feature_async /\ table_options.async THEN <<" async", ".await">> ELSE <<"", "">>

\* generate_common_structs: the PaginationResult struct
generate_common_structs(table_options, feature_tsync) ==
    [tsync |-> IF feature_tsync /\ table_options.tsync THEN "#[tsync::tsync]" ELSE "",
     derives |-> <<"Debug", IF table_options.serde THEN "serde::Serialize" ELSE "">>,
     struct_name |-> "PaginationResult"]

\* generate_connection_type
generate_connection_type(cfg) == [alias |-> "ConnectionType", connection_type |-> cfg.connection_type]

\* primary_column_name_and_type collected in column order instead of key order
primary_column_name_and_type_column_order(tbl) ==
    LET cols == SelectSeq(tbl.columns, LAMBDA c : c.name \in Range(tbl.primary_key_columns))
    IN  [k \in 1..Len(cols) |-> <<cols[k].name, cols[k].ty>>]

\* build_table_fns: primary_column_name_and_type, in the order of the primary-key list
primary_column_name_and_type(tbl) ==
    [k \in 1..Len(tbl.primary_key_columns) |->
        LET pk == tbl.primary_key_columns[k]
            col == tbl.columns[CHOOSE i \in 1..Len(tbl.columns) :
                                   /\ tbl.columns[i].name = pk
                                   /\ \A j \in 1..(i - 1) : tbl.columns[j].name # pk]
        IN  <<col.name, col.ty>>]

\* build_table_fns: item_id_params, one "param_{name}: {ty}" per primary-key column
item_id_params(tbl) ==
    LET nt == primary_column_name_and_type(tbl)
    IN  [k \in 1..Len(nt) |-> [param |-> <<"param_", nt[k][1]>>, ty |-> nt[k][2]]]

\* build_table_fns: item_id_filters, one "filter({name}.eq(param_{name}))" per
\* primary-key column, chained with "."
item_id_filters(tbl) ==
    LET nt == primary_column_name_and_type(tbl)
    IN  [k \in 1..Len(nt) |-> [column |-> nt[k][1], eq |-> <<"param_", nt[k][1]>>]]

\* build_table_fns: key_maybe_multiple
key_maybe_multiple(tbl) ==
    IF Len(primary_column_name_and_type(tbl)) <= 1 THEN "key" ELSE "keys"

\* build_table_fns: the filters of the filter() helper, one per column
filter_rules(tbl) ==
    [k \in 1..Len(tbl.columns) |->
        [column |-> tbl.columns[k].name,
         rule |-> IF tbl.columns[k].is_nullable THEN "eq_or_is_null" ELSE "eq"]]

\* build_table_fns: the {struct_name}Filter struct
filter_fields(tbl) ==
    [k \in 1..Len(tbl.columns) |->
        LET struct_field == StructField_from(tbl.columns[k])
        IN  [name |-> struct_field.name, ty |-> Option(to_rust_type(struct_field))]]

\* build_table_fns
build_table_fns(tbl, cfg, create, update) ==
    LET table_options == cfg.table_options
        kw == get_async(table_options, cfg.features.async)
        async_keyword == kw[1]
        await_keyword == kw[2]
        is_readonly == table_options.readonly
        Fn(name, doc_key, async_kw, params, item, filters, awaits) ==
            [name |-> name, doc_key |-> doc_key, async_keyword |-> async_kw,
             params |-> params, item |-> item, filters |-> filters, awaits |-> awaits]
        create_fn ==
            IF ~is_readonly
            THEN IF has_fields(create)
                 THEN <<Fn("create", "", async_keyword, <<>>, Some(create.identifier),
                           <<>>, <<await_keyword>>)>>
                 ELSE <<Fn("create", "", async_keyword, <<>>, <<>>, <<>>, <<await_keyword>>)>>
            ELSE <<>>
        read_fn ==
            <<Fn("read", key_maybe_multiple(tbl), async_keyword, item_id_params(tbl), <<>>,
                 item_id_filters(tbl), <<await_keyword>>)>>
        paginate_fn ==
            IF cfg.features.advanced_queries
            THEN <<Fn("paginate", "", async_keyword, <<>>, <<>>, <<>>,
                      <<await_keyword, await_keyword>>)>>
            ELSE <<>>
        filter_fn ==
            IF cfg.features.advanced_queries
            THEN <<Fn("filter", "", "", <<>>, <<>>, filter_rules(tbl), <<>>)>>
            ELSE <<>>
        update_fn ==
            IF has_fields(update) /\ ~is_readonly
            THEN <<Fn("update", key_maybe_multiple(tbl), async_keyword, item_id_params(tbl),
                      Some(update.identifier), item_id_filters(tbl), <<await_keyword>>)>>
            ELSE <<>>
        delete_fn ==
            IF ~is_readonly
            THEN <<Fn("delete", key_maybe_multiple(tbl), async_keyword, item_id_params(tbl),
                      <<>>, item_id_filters(tbl), <<await_keyword>>)>>
            ELSE <<>>
    IN  [common_structs |-> IF ~cfg.once_common_structs
                            THEN Some(generate_common_structs(table_options, cfg.features.tsync))
                            ELSE <<>>,
         impl_for |-> Text(<<tbl.struct_name>>),
         fns |-> create_fn \o read_fn \o paginate_fn \o filter_fn \o update_fn \o delete_fn,
         filter_struct |-> IF cfg.features.advanced_queries
                           THEN Some(filter_fields(tbl)) ELSE <<>>]

\* GenerationConfig::any_once_option
any_once_option(cfg) == cfg.once_common_structs \/ cfg.once_connection_type

\* build_imports that inlines the ConnectionType alias whatever the once toggle says
build_imports_alias_always(tbl, cfg) ==
    LET table_options == cfg.table_options
        Use(kind, arg) == [kind |-> kind, arg |-> arg]
    IN  <<Use("use_diesel", "")>>
        \o [k \in 1..Len(tbl.foreign_keys) |-> Use("use_foreign", tbl.foreign_keys[k].table)]
        \o (IF cfg.features.async /\ table_options.async
            THEN <<Use("use_diesel_async", "")>> ELSE <<>>)
        \o <<Use("use_schema", cfg.schema_path)>>
        \o (IF any_once_option(cfg) THEN <<Use("use_common", cfg.model_path)>> ELSE <<>>)
        \o (IF table_options.fns
            THEN <<Use("blank", ""), Use("connection_type", cfg.connection_type)>>
            ELSE <<>>)

\* build_imports
build_imports(tbl, cfg) ==
    LET table_options == cfg.table_options
        Use(kind, arg) == [kind |-> kind, arg |-> arg]
    IN  <<Use("use_diesel", "")>>
        \o [k \in 1..Len(tbl.foreign_keys) |-> Use("use_foreign", tbl.foreign_keys[k].table)]
        \o (IF cfg.features.async /\ table_options.async
            THEN <<Use("use_diesel_async", "")>> ELSE <<>>)
        \o <<Use("use_schema", cfg.schema_path)>>
        \o (IF any_once_option(cfg) THEN <<Use("use_common", cfg.model_path)>> ELSE <<>>)
        \o (IF table_options.fns /\ ~cfg.once_connection_type
            THEN <<Use("blank", ""), Use("connection_type", cfg.connection_type)>>
            ELSE <<>>)

IntTypeNames ==
    {<<"i", "8">>,
      <<"u", "8">>,
      <<"i", "1", "6">>,
      <<"u", "1", "6">>,
      <<"i", "3", "2">>,
      <<"u", "3", "2">>,
      <<"i", "6", "4">>,
      <<"u", "6", "4">>,
      <<"i", "1", "2", "8">>,
      <<"u", "1", "2", "8">>,
      <<"i", "s", "i", "z", "e">>,
      <<"u", "s", "i", "z", "e">>}

\* default_for_type
default_for_type(typ) ==
    IF typ \in IntTypeNames THEN "0"
    ELSE IF typ \in {<<"f", "3", "2">>, <<"f", "6", "4">>} THEN "0.0"
    ELSE IF typ = T_bool THEN "false"
    ELSE IF typ = T_String THEN "String::new()"
    ELSE IF typ \in {<<"&", "s", "t", "r">>, <<"&", "'", "s", "t", "a", "t", "i", "c", " ", "s", "t", "r">>} THEN "empty_str"
    ELSE IF typ = <<"C", "o", "w", "<", "s", "t", "r", ">">> THEN "Cow::Owned(String::new())"
    ELSE IF starts_with(typ, OptionPrefix) THEN "None"
    ELSE "Default::default()"

\* build_default_impl_fn
build_default_impl_fn(struct_name, columns) ==
    [struct_name |-> struct_name,
     fields_to_defaults |->
        [k \in 1..Len(columns) |->
            [name |-> columns[k].name,
             typ_default |-> IF columns[k].is_nullable THEN "None"
                             ELSE default_for_type(columns[k].ty)]]]

\* generate_for_table that pushes the functions before the structs
generate_for_table_fns_first(tbl, cfg) ==
    LET table_options == cfg.table_options
        read == Struct_new("Read", tbl, cfg)
        create == Struct_new("Create", tbl, cfg)
        update == Struct_new("Update", tbl, cfg)
        piece(kind, body) == [kind |-> kind, body |-> <<body>>]
    IN  <<piece("signature", "FILE_SIGNATURE")>>
        \o <<piece("imports", build_imports(tbl, cfg))>>
        \o (IF table_options.fns
            THEN <<piece("fns", build_table_fns(tbl, cfg, create, update))>>
            ELSE <<>>)
        \o <<piece("struct_read", read.rendered_code)>>
        \o (IF has_code(create)
            THEN <<piece("struct_create", create.rendered_code)>>
                 \o (IF cfg.default_impl
                     THEN <<piece("default_impl",
                                  build_default_impl_fn(format("Create", tbl.struct_name),
                                                        create.table.columns))>>
                     ELSE <<>>)
            ELSE <<>>)
        \o (IF has_code(update)
            THEN <<piece("struct_update", update.rendered_code)>>
            ELSE <<>>)
        \o (IF cfg.default_impl
            THEN <<piece("default_impl",
                         build_default_impl_fn(Text(<<tbl.struct_name>>), tbl.columns))>>
            ELSE <<>>)

\* generate_for_table: the pieces pushed to ret_buffer, in order
Fragment(kind, body) == [kind |-> kind, body |-> <<body>>]

generate_for_table(tbl, cfg) ==
    LET table_options == cfg.table_options
        read == Struct_new("Read", tbl, cfg)
        create == Struct_new("Create", tbl, cfg)
        update == Struct_new("Update", tbl, cfg)
    IN  <<Fragment("signature", "FILE_SIGNATURE")>>
        \o <<Fragment("imports", build_imports(tbl, cfg))>>
        \o <<Fragment("struct_read", read.rendered_code)>>
        \o (IF has_code(create)
            THEN <<Fragment("struct_create", create.rendered_code)>>
                 \o (IF cfg.default_impl
                     THEN <<Fragment("default_impl",
                                     build_default_impl_fn(format("Create", tbl.struct_name),
                                                           create.table.columns))>>
                     ELSE <<>>)
            ELSE <<>>)
        \o (IF has_code(update)
            THEN <<Fragment("struct_update", update.rendered_code)>>
            ELSE <<>>)
        \o (IF table_options.fns
            THEN <<Fragment("fns", build_table_fns(tbl, cfg, create, update))>>
            ELSE <<>>)
        \o (IF cfg.default_impl
            THEN <<Fragment("default_impl",
                            build_default_impl_fn(Text(<<tbl.struct_name>>), tbl.columns))>>
            ELSE <<>>)

(***************************************************************************)
(* Inputs: parsed tables and configurations.                               *)
(***************************************************************************)
T_NaiveDateTime ==
    <<"c", "h", "r", "o", "n", "o", ":", ":", "N", "a", "i", "v", "e", "D", "a", "t", "e", "T", "i", "m", "e">>

\* ParsedColumnMacro
Column(name, ty, is_nullable, is_unsigned, is_array) ==
    [name |-> name, column_name |-> name, ty |-> ty, is_nullable |-> is_nullable,
     is_unsigned |-> is_unsigned, is_array |-> is_array]

\* The columns tables are built from, in declaration order.
Catalog ==
    <<Column("id", T_i32, FALSE, FALSE, FALSE),
      Column("text", T_String, FALSE, FALSE, FALSE),
      Column("done", T_bool, TRUE, FALSE, FALSE),
      Column("created_at", T_NaiveDateTime, FALSE, FALSE, FALSE),
      Column("note", T_String, TRUE, FALSE, FALSE),
      Column("data", T_VecU8, FALSE, FALSE, FALSE),
      Column("nums", T_i32, TRUE, TRUE, TRUE)>>

CrudColumns == {"id", "text", "done", "created_at"}

TypedColumns == {"text", "done", "note", "data", "nums"}

\* The catalogue restricted to the columns named in `names`, declaration order kept.
SubCatalog(names) == SelectSeq(Catalog, LAMBDA c : c.name \in names)

ColumnLists(names) == {SubCatalog(S) : S \in {X \in SUBSET names : Cardinality(X) <= MaxCols}}

\* Ordered primary-key lists over the columns of a table: any order, no repetition.
PkLists(cols) ==
    LET names == {cols[k].name : k \in 1..Len(cols)}
    IN  {pk \in UNION {[1..n -> names] : n \in 0..MaxPk} :
            \A i, j \in 1..Len(pk) : i # j => pk[i] # pk[j]}

\* ParsedTableMacro
Tables(names, fks) ==
    {[name |-> "todos", struct_name |-> "Todos", columns |-> cols,
      primary_key_columns |-> pk, foreign_keys |-> fk] :
        <<cols, pk>> \in {<<c, p>> \in UNION {{c} \X PkLists(c) : c \in ColumnLists(names)} : TRUE},
        fk \in fks}

NoForeignKeys == {<<>>}

\* A foreign key of ParsedTableMacro: the table referred to and the joining column.
ForeignKey(foreign_table_name, join_column) ==
    [table |-> foreign_table_name, column |-> join_column]

OneForeignKey == {<<ForeignKey("users", "user_id")>>}

\* TableOptions as resolved for the table, and the GenerationConfig around them.
Config(readonly, autogenerated, create_str, update_str, create_bytes, update_bytes, serde, fns, async, once_common, once_conn, default_impl, f_async, f_adv) ==
    [table_options |->
        [readonly |-> readonly, autogenerated_columns |-> autogenerated,
         create_str_type |-> create_str, update_str_type |-> update_str,
         create_bytes_type |-> create_bytes, update_bytes_type |-> update_bytes,
         serde |-> serde, fns |-> fns, async |-> async, tsync |-> FALSE],
     connection_type |-> "diesel::pg::PgConnection",
     schema_path |-> "crate::schema::",
     model_path |-> "crate::models::",
     once_common_structs |-> once_common,
     once_connection_type |-> once_conn,
     default_impl |-> default_impl,
     features |-> [tsync |-> TRUE, async |-> f_async, advanced_queries |-> f_adv,
                   derive_queryablebyname |-> TRUE]]

\* Configurations that vary what decides which structs and functions are emitted.
CrudConfigs ==
    {Config(ro, ag, "String", "String", "Vec", "Vec", TRUE, fns, as, FALSE, FALSE, FALSE, fa, fq) :
        ro \in BOOLEAN, ag \in SUBSET {"id", "created_at"}, fns \in BOOLEAN,
        as \in BOOLEAN, fa \in BOOLEAN, fq \in BOOLEAN}

\* Configurations that vary the representation of string and byte fields.
TypeConfigs ==
    {Config(FALSE, {}, cs, us, cb, ub, TRUE, TRUE, FALSE, FALSE, FALSE, FALSE, FALSE, FALSE) :
        cs \in StringTypes, us \in StringTypes, cb \in BytesTypes, ub \in BytesTypes}

\* The --async flag exists only in a build with the feature "async".
ValidConfig(cfg) == cfg.table_options.async => cfg.features.async

FsIdle ==
    /\ files = <<>>
    /\ prior = <<>>
    /\ changes = <<>>
    /\ printed = <<>>
    /\ modified = 0
    /\ schema = <<>>
    /\ next_table = 1
    /\ run_config = ""
    /\ last_run = <<>>
    /\ repeat = FALSE

PageIdle ==
    /\ page = 0
    /\ page_size = 0
    /\ total_items = 0
    /\ result = <<>>

InitGen(tables, configs) ==
    /\ table \in tables
    /\ config \in {c \in configs : ValidConfig(c)}
    /\ pc = "start"
    /\ read_struct = <<>>
    /\ create_struct = <<>>
    /\ update_struct = <<>>
    /\ ret_buffer = <<>>
    /\ generated = <<>>
    /\ FsIdle
    /\ PageIdle

\* The derive list of a struct as rendered; none when the struct is not emitted.
StructDerives(st) == IF has_code(st) THEN unwrap(st.rendered_code).derive_attr ELSE <<>>

\* What a call of generate_for_table(tbl, cfg) was given and what it produced.
Invocation(tbl, cfg, read, create, update, text) ==
    [table |-> tbl, config |-> cfg,
     read_derives |-> StructDerives(read),
     create_derives |-> StructDerives(create),
     update_derives |-> StructDerives(update),
     text |-> text]

\* One call of generate_for_table(table, config).
GenerateForTable ==
    /\ pc = "start"
    /\ pc' = "done"
    /\ read_struct' = Struct_new("Read", table, config)
    /\ create_struct' = Struct_new("Create", table, config)
    /\ update_struct' = Struct_new("Update", table, config)
    /\ ret_buffer' = generate_for_table(table, config)
    /\ generated' = Append(generated,
                           Invocation(table, config, read_struct', create_struct',
                                      update_struct', ret_buffer'))
    /\ UNCHANGED <<table, config, fsVars, pageVars>>

Init == InitGen(Tables(CrudColumns, NoForeignKeys), CrudConfigs)

Next == GenerateForTable

Spec == Init /\ [][Next]_vars

InitTypes == InitGen(Tables(TypedColumns, NoForeignKeys), TypeConfigs)

SpecTypes == InitTypes /\ [][Next]_vars

(***************************************************************************)
(* Every combination of the toggles that decide which fragments a file is  *)
(* composed of.                                                            *)
(***************************************************************************)
ComposeConfigs ==
    {Config(ro, ag, "String", "String", "Vec", "Vec", TRUE, fns, FALSE, oc, on, di, FALSE, fq) :
        ro \in BOOLEAN, ag \in {{}, {"id"}}, fns \in BOOLEAN, oc \in BOOLEAN,
        on \in BOOLEAN, di \in BOOLEAN, fq \in BOOLEAN}

InitCompose == InitGen(Tables({"id", "text", "done"}, NoForeignKeys), ComposeConfigs)

SpecCompose == InitCompose /\ [][Next]_vars

(***************************************************************************)
(* Tables with and without foreign keys, generated with and without the    *)
(* serde derives.                                                          *)
(***************************************************************************)
DeriveColumns == {"id", "text", "done"}

DeriveConfigs ==
    {Config(ro, ag, "String", "String", "Vec", "Vec", sd, TRUE, FALSE, FALSE, FALSE, FALSE, FALSE, FALSE) :
        ro \in BOOLEAN, ag \in {{}, {"id"}}, sd \in BOOLEAN}

InitDerive == InitGen(Tables(DeriveColumns, NoForeignKeys \cup OneForeignKey), DeriveConfigs)

SpecDerive == InitDerive /\ [][Next]_vars

(***************************************************************************)
(* Tables of a primary key id and one column "value" of every type and     *)
(* every combination of the nullable, unsigned and array markers.          *)
(***************************************************************************)
T_isize == <<"i", "s", "i", "z", "e">>

ColumnTypes == {T_i32, T_i64, T_isize, T_bool, T_String, T_VecU8}

FlagColumns ==
    {Column("value", ty, n, u, a) : ty \in ColumnTypes, n \in BOOLEAN, u \in BOOLEAN, a \in BOOLEAN}

FlagTables ==
    {[name |-> "todos", struct_name |-> "Todos",
      columns |-> <<Column("id", T_i32, FALSE, FALSE, FALSE), c>>,
      primary_key_columns |-> <<"id">>, foreign_keys |-> <<>>] : c \in FlagColumns}

\* Configurations that vary the representation of string fields.
FlagConfigs ==
    {Config(FALSE, {}, cs, us, "Vec", "Vec", TRUE, TRUE, FALSE, FALSE, FALSE, FALSE, FALSE, FALSE) :
        cs \in StringTypes, us \in StringTypes}

InitColumns == InitGen(FlagTables, FlagConfigs)

SpecColumns == InitColumns /\ [][Next]_vars

(***************************************************************************)
(* A run that calls generate_for_table for one table after the other.      *)
(***************************************************************************)
\* Tables of columns id and text that differ in primary key and foreign keys.
RunTables ==
    {t \in Tables({"id", "text"}, NoForeignKeys \cup OneForeignKey) :
        /\ Len(t.columns) = 2
        /\ t.primary_key_columns \in {<<>>, <<"id">>}}

\* Configurations that differ in the readonly and the serde toggle.
RunConfigs ==
    {Config(ro, {}, "String", "String", "Vec", "Vec", sd, TRUE, FALSE, FALSE, FALSE, FALSE, FALSE, FALSE) :
        ro \in BOOLEAN, sd \in BOOLEAN}

InitRun == InitGen(RunTables, RunConfigs)

\* The run goes on to its next table.
NextTable(tbl, cfg) ==
    /\ pc = "done"
    /\ Len(generated) < MaxRun
    /\ pc' = "start"
    /\ table' = tbl
    /\ config' = cfg
    /\ read_struct' = <<>>
    /\ create_struct' = <<>>
    /\ update_struct' = <<>>
    /\ ret_buffer' = <<>>
    /\ UNCHANGED <<generated, fsVars, pageVars>>

NextRun ==
    \/ GenerateForTable
    \/ \E tbl \in RunTables, cfg \in RunConfigs : NextTable(tbl, cfg)

SpecRun == InitRun /\ [][NextRun]_vars

(***************************************************************************)
(* What the properties read from a finished generation.                    *)
(***************************************************************************)
Done == pc = "done"

\* The field lines of an emitted struct; none when the struct is not emitted.
StructLines(st) == IF has_code(st) THEN unwrap(st.rendered_code).lines ELSE <<>>

FieldNames(st) == [k \in 1..Len(StructLines(st)) |-> StructLines(st)[k].field_name]

\* The names of the table's columns, in declaration order, without those in `removed`.
ColumnNamesWithout(removed) ==
    LET kept == SelectSeq(table.columns, LAMBDA c : c.name \notin removed)
    IN  [k \in 1..Len(kept) |-> kept[k].name]

\* The pieces of the generated file of a kind.
Fragments(kind) == SelectSeq(ret_buffer, LAMBDA f : f.kind = kind)

\* The functions of the impl block of the generated file.
EmittedFns == IF Fragments("fns") = <<>> THEN <<>> ELSE unwrap(Fragments("fns")[1].body).fns

EmittedFnNames == {EmittedFns[k].name : k \in 1..Len(EmittedFns)}

PrimaryKeys == table.primary_key_columns

\* C1: for a non-readonly table the Create struct's fields are the table's columns in
\* declaration order without exactly the columns named in the autogenerated set;
\* primary-key columns stay unless listed there, and no column is added.
C1_CreateFields ==
    (Done /\ ~config.table_options.readonly) =>
        FieldNames(create_struct) = ColumnNamesWithout(config.table_options.autogenerated_columns)

\* C1 witness: id (primary key), text, created_at with created_at autogenerated:
\* the Create struct keeps the primary key and drops created_at.
C1_Witness ==
    /\ Done
    /\ ~config.table_options.readonly
    /\ config.table_options.autogenerated_columns = {"created_at"}
    /\ PrimaryKeys = <<"id">>
    /\ ColumnNamesWithout({}) = <<"id", "text", "created_at">>
    /\ FieldNames(create_struct) = <<"id", "text">>

\* C3: for a non-readonly table the Update struct's fields are the table's columns in
\* declaration order without exactly the primary-key columns (autogenerated columns
\* that are no primary key stay), and the Read struct's fields are all columns.
C3_UpdateReadFields ==
    (Done /\ ~config.table_options.readonly) =>
        /\ FieldNames(update_struct) = ColumnNamesWithout(Range(PrimaryKeys))
        /\ FieldNames(read_struct) = ColumnNamesWithout({})

\* C3 witness: id (primary key), text, created_at with created_at autogenerated: the
\* Update struct drops the primary key only and the Read struct has every column.
C3_Witness ==
    /\ Done
    /\ ~config.table_options.readonly
    /\ PrimaryKeys = <<"id">>
    /\ config.table_options.autogenerated_columns = {"created_at"}
    /\ FieldNames(read_struct) = <<"id", "text", "created_at">>
    /\ FieldNames(update_struct) = <<"text", "created_at">>

\* C4 as stated: a readonly table yields no Create or Update struct and no create,
\* update or delete function, and still the Read struct and the read and paginate
\* functions.
C4_ReadonlyAsStated ==
    (Done /\ config.table_options.readonly) =>
        /\ Fragments("struct_create") = <<>>
        /\ Fragments("struct_update") = <<>>
        /\ EmittedFnNames \cap {"create", "update", "delete"} = {}
        /\ has_code(read_struct)
        /\ {"read", "paginate"} \subseteq EmittedFnNames

\* C4 amended: a readonly table yields no Create or Update struct and no create,
\* update or delete function whatever its columns, keys and autogenerated set; it
\* yields the Read struct when it has a column, the read function when function
\* generation is enabled, and the paginate function when moreover the build has the
\* feature "advanced-queries".
C4_Readonly ==
    (Done /\ config.table_options.readonly) =>
        /\ Fragments("struct_create") = <<>>
        /\ Fragments("struct_update") = <<>>
        /\ ~has_code(create_struct)
        /\ ~has_code(update_struct)
        /\ EmittedFnNames \cap {"create", "update", "delete"} = {}
        /\ (table.columns # <<>>) => /\ has_code(read_struct)
                                     /\ Len(Fragments("struct_read")) = 1
                                     /\ Fragments("struct_read")[1].body = <<read_struct.rendered_code>>
        /\ config.table_options.fns => "read" \in EmittedFnNames
        /\ (config.table_options.fns /\ config.features.advanced_queries)
               => "paginate" \in EmittedFnNames

\* C4 witness: a readonly table with a primary key, other columns and an autogenerated
\* column, generated with functions: Read struct, read and paginate only.
C4_Witness ==
    /\ Done
    /\ config.table_options.readonly
    /\ config.table_options.autogenerated_columns = {"created_at"}
    /\ PrimaryKeys = <<"id">>
    /\ FieldNames(read_struct) = <<"id", "text", "created_at">>
    /\ EmittedFnNames = {"read", "paginate", "filter"}

\* The read, update and delete functions that were emitted.
KeyedFns == SelectSeq(EmittedFns, LAMBDA f : f.name \in {"read", "update", "delete"})

\* C9: each emitted read, update and delete function takes one parameter per
\* primary-key column in the order of the primary-key list, filters by one equality
\* per primary-key column (chained, so conjoined), and its documentation says "keys"
\* for two or more primary-key columns and "key" for exactly one.
C9_KeyParams ==
    Done =>
        \A i \in 1..Len(KeyedFns) :
            LET f == KeyedFns[i]
                n == Len(PrimaryKeys)
            IN  /\ Len(f.params) = n
                /\ Len(f.filters) = n
                /\ \A k \in 1..n :
                      /\ f.params[k].param = <<"param_", PrimaryKeys[k]>>
                      /\ \E c \in Range(table.columns) :
                            c.name = PrimaryKeys[k] /\ f.params[k].ty = c.ty
                      /\ f.filters[k] = [column |-> PrimaryKeys[k],
                                         eq |-> <<"param_", PrimaryKeys[k]>>]
                /\ (n >= 2) => f.doc_key = "keys"
                /\ (n = 1) => f.doc_key = "key"

\* C9 witness: primary key (text, id) on columns id, text, done: key order differs
\* from column order, and read, update and delete are all emitted.
C9_Witness ==
    /\ Done
    /\ PrimaryKeys = <<"text", "id">>
    /\ ColumnNamesWithout({}) = <<"id", "text", "done">>
    /\ Len(KeyedFns) = 3
    /\ \A i \in 1..3 : KeyedFns[i].doc_key = "keys" /\ Len(KeyedFns[i].params) = 2

\* Whether the async toggle of the table is enabled.
AsyncEnabled == config.table_options.async

\* C10 as stated: with the async toggle enabled every function of the impl block,
\* filter included, is marked async and every database call awaited; with it disabled
\* none is; no impl block mixes async and non-async functions.
C10_AsyncAsStated ==
    Done =>
        /\ \A i \in 1..Len(EmittedFns) :
              /\ EmittedFns[i].async_keyword = (IF AsyncEnabled THEN " async" ELSE "")
              /\ \A k \in 1..Len(EmittedFns[i].awaits) :
                    EmittedFns[i].awaits[k] = (IF AsyncEnabled THEN ".await" ELSE "")
        /\ \A i, j \in 1..Len(EmittedFns) :
              EmittedFns[i].async_keyword = EmittedFns[j].async_keyword

\* C10 amended: with the async toggle enabled every function of the impl block that
\* calls the database (create, read, paginate, update, delete) is marked async and
\* each of its database calls is awaited, while filter, which only builds a query and
\* calls no database, is never async; with the toggle disabled no function is marked
\* async and no call is awaited.
C10_Async ==
    Done =>
        \A i \in 1..Len(EmittedFns) :
            LET f == EmittedFns[i]
            IN  IF f.name = "filter"
                THEN f.async_keyword = "" /\ f.awaits = <<>>
                ELSE /\ f.awaits # <<>>
                     /\ f.async_keyword = (IF AsyncEnabled THEN " async" ELSE "")
                     /\ \A k \in 1..Len(f.awaits) :
                           f.awaits[k] = (IF AsyncEnabled THEN ".await" ELSE "")

\* C10 witness: an async table with all six functions emitted.
C10_Witness ==
    /\ Done
    /\ AsyncEnabled
    /\ EmittedFnNames = {"create", "read", "paginate", "filter", "update", "delete"}
    /\ \E i \in 1..Len(EmittedFns) :
          EmittedFns[i].name = "paginate" /\ EmittedFns[i].awaits = <<".await", ".await">>

\* The type a column has in the Read struct.
ReadTypeOf(name) ==
    LET l == SelectSeq(StructLines(read_struct), LAMBDA x : x.field_name = name)
    IN  l[1].field_type

\* The column of the table with a name.
ColumnNamed(name) == CHOOSE c \in Range(table.columns) : c.name = name

\* The representation configured for the Update struct of a base type.
UpdateRepresentation(base) ==
    IF base = T_String THEN str_as_str(config.table_options.update_str_type)
    ELSE IF base = T_VecU8 THEN bytes_as_str(config.table_options.update_bytes_type)
    ELSE base

\* `t` with its part `base` replaced by `by`, the layers around it kept.
WithBaseReplaced(t, base, by) ==
    {SubSeq(t, 1, i - 1) \o by \o SubSeq(t, i + Len(base), Len(t)) :
        i \in {j \in 1..(Len(t) - Len(base) + 1) : SubSeq(t, j, j + Len(base) - 1) = base}}

\* C2 as stated: every Update field's type is the type of the same column in the Read
\* struct in exactly one more Option, string and byte fields included, for every
\* configuration.
C2_UpdateWrapAsStated ==
    Done =>
        \A k \in 1..Len(StructLines(update_struct)) :
            LET u == StructLines(update_struct)[k]
            IN  u.field_type = Option(ReadTypeOf(u.field_name))

\* C2 amended: every Update field's type is exactly one Option around the type of the
\* same column in the Read struct, in which the base type of a string (byte) field is
\* the string (byte) representation configured for the Update struct; with the owned
\* representations configured that is Option of the Read type itself.  Nullable fields
\* become Option<Option<..>> and array fields Option<Vec<Option<..>>>.
C2_UpdateWrap ==
    Done =>
        \A k \in 1..Len(StructLines(update_struct)) :
            LET u == StructLines(update_struct)[k]
                base == StructField_from(ColumnNamed(u.field_name)).base_type
                inner == WithBaseReplaced(ReadTypeOf(u.field_name), base,
                                          UpdateRepresentation(base))
            IN  /\ inner # {}
                /\ \A t \in inner : u.field_type = Option(t)
                /\ (/\ config.table_options.update_str_type = "String"
                    /\ config.table_options.update_bytes_type = "Vec")
                       => u.field_type = Option(ReadTypeOf(u.field_name))

\* C2 witness: borrowed strings in the Update struct of a table with primary key text, a
\* nullable string note and a nullable array nums: note is Option<Option<&'a str>> and
\* nums is Option<Option<Vec<Option<u32>>>>.
C2_Witness ==
    /\ Done
    /\ config.table_options.update_str_type = "Str"
    /\ PrimaryKeys = <<"text">>
    /\ FieldNames(update_struct) = <<"note", "nums">>
    /\ ReadTypeOf("note") = Option(T_String)
    /\ StructLines(update_struct)[1].field_type = Option(Option(<<"&", "'", "a", " ", "s", "t", "r">>))
    /\ StructLines(update_struct)[2].field_type = Option(Option(Vec(Option(<<"u", "3", "2">>))))

(***************************************************************************)
(* Runs of the generator over an output directory: generate_files builds   *)
(* one file per table of the schema, in schema order, classifies it        *)
(* against what is on disk and writes it; actual_main then prints the      *)
(* changes and counts the files that changed.                              *)
(***************************************************************************)
FsTableNames == <<"todos", "users">>

\* The table a schema declares under a name.
FsTable(name) ==
    IF name = "todos"
    THEN [name |-> "todos", struct_name |-> "Todos",
          columns |-> SubCatalog({"id", "text", "done"}),
          primary_key_columns |-> <<"id">>, foreign_keys |-> <<>>]
    ELSE [name |-> "users", struct_name |-> "Users",
          columns |-> SubCatalog({"id", "text", "created_at"}),
          primary_key_columns |-> <<"id">>, foreign_keys |-> <<>>]

\* Schemas: the tables declared, in declaration order.
FsSchemas == {SelectSeq(FsTableNames, LAMBDA n : n \in S) : S \in SUBSET Range(FsTableNames)}

FsConfigNames == {"crud", "no_crud"}

\* The configuration a command line gives: the default one, or --no-crud.
FsConfig(name) ==
    Config(FALSE, {}, "String", "String", "Vec", "Vec", TRUE, name = "crud", FALSE,
           FALSE, FALSE, FALSE, FALSE, FALSE)

\* The target path of a table's generated file under the output directory.
PathOf(name) == <<"models", name, "generated.rs">>

FsPaths == {PathOf(FsTableNames[k]) : k \in 1..Len(FsTableNames)}

\* The freshly rendered content of a table's file.
FreshContent(name, cfg) == generate_for_table(FsTable(name), FsConfig(cfg))

\* Content of a file somebody else wrote or edited.
ForeignContent == <<Fragment("edited", "")>>

\* FileChange status, from the prior content at the path and the fresh content.
file_change_status(prior_content, fresh) ==
    IF prior_content = <<>> THEN "Added"
    ELSE IF unwrap(prior_content) # fresh THEN "Modified"
    ELSE "Unchanged"

\* write_file that leaves an existing file as it is
write_file_new_only(dir, path, status, fresh) ==
    IF status = "Added" THEN [dir EXCEPT ![path] = Some(fresh)] ELSE dir

\* The write of a file classified Added or Modified.
write_file(dir, path, status, fresh) ==
    IF status \in {"Added", "Modified"} THEN [dir EXCEPT ![path] = Some(fresh)] ELSE dir

\* actual_main printing only the files that changed
actual_main_printed_changed_only(file_changes) ==
    LET shown == SelectSeq(file_changes, LAMBDA c : c.status # "Unchanged")
    IN  [k \in 1..Len(shown) |-> <<shown[k].status, shown[k].file>>]

\* actual_main: the "{status} {file}" line printed for each change
actual_main_printed(file_changes) ==
    [k \in 1..Len(file_changes) |-> <<file_changes[k].status, file_changes[k].file>>]

\* actual_main counting every change
actual_main_modified_counts_all(file_changes) == Len(file_changes)

\* actual_main: the count of changes whose status is not Unchanged
actual_main_modified(file_changes) ==
    Cardinality({k \in 1..Len(file_changes) : file_changes[k].status # "Unchanged"})

GenIdle ==
    /\ table = <<>>
    /\ config = <<>>
    /\ read_struct = <<>>
    /\ create_struct = <<>>
    /\ update_struct = <<>>
    /\ ret_buffer = <<>>
    /\ generated = <<>>

InitFs ==
    /\ pc = "idle"
    /\ files = [p \in FsPaths |-> <<>>]
    /\ prior = [p \in FsPaths |-> <<>>]
    /\ changes = <<>>
    /\ printed = <<>>
    /\ modified = 0
    /\ schema = <<>>
    /\ next_table = 1
    /\ run_config = "crud"
    /\ last_run = <<>>
    /\ repeat = FALSE
    /\ GenIdle
    /\ PageIdle

\* actual_main calls generate_files on a schema with a configuration.
StartRun(s, cfg) ==
    /\ pc \in {"idle", "reported"}
    /\ pc' = "running"
    /\ schema' = s
    /\ run_config' = cfg
    /\ next_table' = 1
    /\ prior' = files
    /\ changes' = <<>>
    /\ printed' = <<>>
    /\ modified' = 0
    /\ repeat' = (pc = "reported" /\ last_run = Some(<<s, cfg>>))
    /\ UNCHANGED <<files, last_run, genVars, pageVars>>

\* generate_files handles the next table: render, classify, write, record.
ProcessTable ==
    /\ pc = "running"
    /\ next_table <= Len(schema)
    /\ LET name == schema[next_table]
           path == PathOf(name)
           fresh == FreshContent(name, run_config)
           status == file_change_status(files[path], fresh)
       IN  /\ files' = write_file(files, path, status, fresh)
           /\ changes' = Append(changes, [file |-> path, status |-> status])
    /\ next_table' = next_table + 1
    /\ UNCHANGED <<pc, prior, printed, modified, schema, run_config, last_run, repeat,
                   genVars, pageVars>>

\* An error reading or writing the next table's file aborts the run; what was
\* written stays, nothing is reported.
FailRun ==
    /\ pc = "running"
    /\ next_table <= Len(schema)
    /\ pc' = "idle"
    /\ last_run' = <<>>
    /\ UNCHANGED <<files, prior, changes, printed, modified, schema, next_table, run_config,
                   repeat, genVars, pageVars>>

\* generate_files returned: actual_main prints every change and the count.
Report ==
    /\ pc = "running"
    /\ next_table > Len(schema)
    /\ pc' = "reported"
    /\ printed' = actual_main_printed(changes)
    /\ modified' = actual_main_modified(changes)
    /\ last_run' = Some(<<schema, run_config>>)
    /\ UNCHANGED <<files, prior, changes, schema, next_table, run_config, repeat,
                   genVars, pageVars>>

\* Between runs somebody edits, creates or deletes a file of the output directory.
ExternalEdit(path, content) ==
    /\ pc \in {"idle", "reported"}
    /\ files[path] # content
    /\ pc' = "idle"
    /\ files' = [files EXCEPT ![path] = content]
    /\ last_run' = <<>>
    /\ UNCHANGED <<prior, changes, printed, modified, schema, next_table, run_config,
                   repeat, genVars, pageVars>>

NextFs ==
    \/ \E s \in FsSchemas, cfg \in FsConfigNames : StartRun(s, cfg)
    \/ ProcessTable
    \/ FailRun
    \/ Report
    \/ \E path \in FsPaths, content \in {<<>>, Some(ForeignContent)} : ExternalEdit(path, content)

SpecFs == InitFs /\ [][NextFs]_vars

\* The paths the current run produces.
ProducedPaths == {PathOf(schema[k]) : k \in 1..Len(schema)}

\* C5: a run that repeats the last completed run (same schema, same configuration)
\* on an output directory nothing touched in between reports Unchanged for every
\* file, counts 0 modified files and changes no file content.
C5_SecondRunUnchanged ==
    (pc = "reported" /\ repeat) =>
        /\ Len(printed) = Len(schema)
        /\ \A k \in 1..Len(printed) : printed[k][1] = "Unchanged"
        /\ modified = 0
        /\ files = prior

\* C5 witness: the repeated run of a schema of two tables has been reported.
C5_Witness ==
    /\ pc = "reported"
    /\ repeat
    /\ schema = <<"todos", "users">>
    /\ printed = <<<<"Unchanged", PathOf("todos")>>, <<"Unchanged", PathOf("users")>>>>

\* C6: a run reports exactly one status per path it produces: Added exactly when no
\* file was at the path before the run, Modified exactly when a file was there whose
\* content differs from the freshly rendered one, Unchanged exactly when a file was
\* there with identical content.
C6_ChangeStatus ==
    (pc = "reported") =>
        /\ Len(printed) = Len(schema)
        /\ \A name \in Range(schema) :
              Cardinality({k \in 1..Len(printed) : printed[k][2] = PathOf(name)}) = 1
        /\ \A k \in 1..Len(printed) :
              LET status == printed[k][1]
                  path == printed[k][2]
                  fresh == FreshContent(schema[k], run_config)
              IN  /\ path = PathOf(schema[k])
                  /\ status \in {"Added", "Modified", "Unchanged"}
                  /\ (status = "Added") <=> (prior[path] = <<>>)
                  /\ (status = "Modified") <=> (prior[path] # <<>> /\ prior[path] # Some(fresh))
                  /\ (status = "Unchanged") <=> (prior[path] = Some(fresh))

\* C6 witness: one run reports Modified for a file generated before with another
\* configuration and Added for a file that did not exist.
C6_Witness ==
    /\ pc = "reported"
    /\ prior[PathOf("todos")] = Some(FreshContent("todos", "crud"))
    /\ prior[PathOf("users")] = <<>>
    /\ printed = <<<<"Modified", PathOf("todos")>>, <<"Added", PathOf("users")>>>>

\* C7: during and after every run each file the run classified Added or Modified
\* holds the freshly rendered content, no file that existed when the run began is
\* gone, and a file at a path the current schema does not produce is as it was.
C7_WrittenNeverDeleted ==
    (pc \in {"running", "reported"}) =>
        /\ \A k \in 1..Len(changes) :
              changes[k].status \in {"Added", "Modified"}
                  => files[changes[k].file] = Some(FreshContent(schema[k], run_config))
        /\ \A p \in FsPaths :
              /\ prior[p] # <<>> => files[p] # <<>>
              /\ p \notin ProducedPaths => files[p] = prior[p]

\* C7 witness: a run over a schema that no longer declares todos has written the file
\* of users and left the file an earlier run generated for todos in place.
C7_Witness ==
    /\ pc = "reported"
    /\ schema = <<"users">>
    /\ changes = <<[file |-> PathOf("users"), status |-> "Modified"]>>
    /\ prior[PathOf("todos")] = Some(FreshContent("todos", "crud"))
    /\ files[PathOf("todos")] = prior[PathOf("todos")]
    /\ files[PathOf("users")] = Some(FreshContent("users", run_config))

(***************************************************************************)
(* The paginate function the generator emits (build_table_fns, feature     *)
(* "advanced-queries"), run on integers of IntBits bits.                   *)
(***************************************************************************)
MinInt == -(2 ^ (IntBits - 1))

MaxInt == 2 ^ (IntBits - 1) - 1

Ints == MinInt..MaxInt

\* Two's complement wrap-around of a result to IntBits bits.
wrap(x) == ((x - MinInt) % (2 ^ IntBits)) + MinInt

\* Ord::max
max(a, b) == IF a >= b THEN a ELSE b

\* Rust integer division: the quotient truncated towards zero.
rust_div(a, b) ==
    LET q == (IF a < 0 THEN -a ELSE a) \div (IF b < 0 THEN -b ELSE b)
    IN  IF (a < 0) = (b < 0) THEN q ELSE -q

\* Rust remainder: the sign of the dividend.
rust_rem(a, b) == a - b * rust_div(a, b)

\* i64::from(bool)
from_bool(b) == IF b THEN 1 ELSE 0

\* num_pages as the plain quotient, without the ceiling
num_pages_floor(total, size) == rust_div(total, size)

\* paginate: num_pages, the ceiling division of integers
num_pages(total, size) == rust_div(total, size) + from_bool(rust_rem(total, size) # 0)

\* paginate: what a call can produce.  Either query can fail; page * page_size
\* overflows into a panic in a build with overflow checks and wraps around in one
\* without.
paginate(page_arg, page_size_arg, total) ==
    LET page_ == max(page_arg, 0)
        page_size_ == max(page_size_arg, 1)
        offset == page_ * page_size_
        Ok(off) == [kind |-> "Ok", limit |-> page_size_, offset |-> off,
                    total_items |-> total, page |-> page_, page_size |-> page_size_,
                    num_pages |-> num_pages(total, page_size_)]
        Failed(kind) == [kind |-> kind, limit |-> 0, offset |-> 0, total_items |-> 0,
                         page |-> 0, page_size |-> 0, num_pages |-> 0]
    IN  {Failed("Err")}
        \cup (IF offset \in Ints THEN {Ok(offset)} ELSE {Failed("Panic"), Ok(wrap(offset))})

InitPaginate ==
    /\ pc = "start"
    /\ page \in Ints
    /\ page_size \in Ints
    /\ total_items \in 0..MaxInt
    /\ result = <<>>
    /\ GenIdle
    /\ FsIdle

\* One call paginate(db, page, page_size, filter) on a table of total_items rows.
Paginate ==
    /\ pc = "start"
    /\ pc' = "done"
    /\ \E r \in paginate(page, page_size, total_items) : result' = Some(r)
    /\ UNCHANGED <<page, page_size, total_items, genVars, fsVars>>

NextPaginate == Paginate

SpecPaginate == InitPaginate /\ [][NextPaginate]_vars

\* The result of a call that returned Ok.
Returned == pc = "done" /\ unwrap(result).kind = "Ok"

VariantColumns(ty) ==
    ColumnNamesWithout(CASE ty = "Read" -> {}
                         [] ty = "Create" -> config.table_options.autogenerated_columns
                         [] ty = "Update" -> Range(PrimaryKeys))

\* The text generate_for_table pushed for the struct of a variant; <<>> when none.
StructText(ty) ==
    LET pushed == Fragments(CASE ty = "Read" -> "struct_read"
                              [] ty = "Create" -> "struct_create"
                              [] ty = "Update" -> "struct_update")
    IN  IF pushed = <<>> THEN <<>> ELSE pushed[1].body[1]

\* The functions of a name in the impl block.
FnsNamed(name) == SelectSeq(EmittedFns, LAMBDA f : f.name = name)

\* C12: after Struct::new every variant's struct records whether it has fields, so
\* has_fields() does not panic; it has rendered code exactly when has_fields() is true;
\* for a table that is not readonly that is exactly when the variant's field set is not
\* empty; and a variant with an empty field set puts no struct text into the file and
\* is seen without fields by the function generator: create takes no payload and no
\* update function is built.
C12_HasFields ==
    Done =>
        /\ \A st \in {read_struct, create_struct, update_struct} :
              /\ is_some(st.has_fields)
              /\ has_code(st) <=> has_fields(st)
              /\ ~config.table_options.readonly
                     => (has_fields(st) <=> VariantColumns(st.ty) # <<>>)
              /\ VariantColumns(st.ty) = <<>>
                     => /\ ~has_fields(st)
                        /\ ~has_code(st)
                        /\ StructText(st.ty) = <<>>
              /\ has_code(st) => /\ StructText(st.ty) = st.rendered_code
                                  /\ StructLines(st) # <<>>
        /\ VariantColumns("Create") = <<>>
               => \A k \in 1..Len(FnsNamed("create")) : FnsNamed("create")[k].item = <<>>
        /\ VariantColumns("Update") = <<>> => FnsNamed("update") = <<>>

\* C12 witness: a table that is not readonly whose only column id is the primary key
\* and autogenerated: the Read struct has its field, the Create and the Update struct
\* have none, and the functions are generated.
C12_Witness ==
    /\ Done
    /\ ~config.table_options.readonly
    /\ config.table_options.fns
    /\ ColumnNamesWithout({}) = <<"id">>
    /\ PrimaryKeys = <<"id">>
    /\ config.table_options.autogenerated_columns = {"id"}
    /\ has_fields(read_struct) /\ has_code(read_struct)
    /\ ~has_fields(create_struct) /\ ~has_code(create_struct)
    /\ ~has_fields(update_struct) /\ ~has_code(update_struct)
    /\ Len(FnsNamed("create")) = 1
    /\ FnsNamed("update") = <<>>

\* C13: with function generation enabled the impl block has exactly one create
\* function when the table is not readonly and none when it is; that function takes
\* the Create struct as payload exactly when the Create struct has fields, and
\* otherwise takes no payload (the insert of default values).
C13_Create ==
    (Done /\ config.table_options.fns) =>
        /\ Len(FnsNamed("create")) = (IF config.table_options.readonly THEN 0 ELSE 1)
        /\ \A k \in 1..Len(FnsNamed("create")) :
              LET f == FnsNamed("create")[k]
              IN  /\ f.params = <<>>
                  /\ IF StructLines(create_struct) # <<>>
                     THEN f.item = Some(<<"Create", table.struct_name>>)
                     ELSE f.item = <<>>

\* C13 witness: a table that is not readonly whose columns id and created_at are
\* both autogenerated: the Create struct has no fields and create takes no payload.
C13_Witness ==
    /\ Done
    /\ config.table_options.fns
    /\ ~config.table_options.readonly
    /\ ColumnNamesWithout({}) = <<"id", "created_at">>
    /\ config.table_options.autogenerated_columns = {"id", "created_at"}
    /\ StructLines(create_struct) = <<>>
    /\ Len(FnsNamed("create")) = 1
    /\ FnsNamed("create")[1].item = <<>>

\* Every column of the table is a primary-key column.
AllColumnsPrimaryKey == \A c \in Range(table.columns) : c.name \in Range(PrimaryKeys)

\* C14: with function generation enabled the update function is emitted, once and with
\* the Update struct as payload, exactly when the Update struct is emitted (it has at
\* least one field) and the table is not readonly; a table that is not readonly and
\* whose columns are all primary-key columns gets create, read and delete and no
\* update.
C14_Update ==
    (Done /\ config.table_options.fns) =>
        /\ (FnsNamed("update") # <<>>)
               <=> (/\ StructText("Update") # <<>>
                    /\ StructLines(update_struct) # <<>>
                    /\ ~config.table_options.readonly)
        /\ Len(FnsNamed("update")) <= 1
        /\ \A k \in 1..Len(FnsNamed("update")) :
              FnsNamed("update")[k].item = Some(<<"Update", table.struct_name>>)
        /\ (AllColumnsPrimaryKey /\ ~config.table_options.readonly)
               => EmittedFnNames \cap {"create", "read", "update", "delete"}
                      = {"create", "read", "delete"}

\* C14 witness: a join table that is not readonly, with columns id and text that are
\* both in the primary key: create, read and delete are emitted, update is not.
C14_Witness ==
    /\ Done
    /\ config.table_options.fns
    /\ ~config.table_options.readonly
    /\ ColumnNamesWithout({}) = <<"id", "text">>
    /\ PrimaryKeys = <<"id", "text">>
    /\ AllColumnsPrimaryKey
    /\ {"create", "read", "delete"} \subseteq EmittedFnNames
    /\ "update" \notin EmittedFnNames

\* The emitted structs.
EmittedStructs == {st \in {read_struct, create_struct, update_struct} : has_code(st)}

\* The Rust integer types that have an unsigned type of the same width.
SignedIntegerTypes ==
    {<<"i", "8">>, <<"i", "1", "6">>, T_i32, T_i64, <<"i", "1", "2", "8">>, T_isize}

\* The unsigned type of the same width; a type that is no signed integer is itself.
UnsignedCounterpart(ty) == IF ty \in SignedIntegerTypes THEN <<"u">> \o Tail(ty) ELSE ty

\* The representation configured for a variant's struct of a base type.
VariantRepresentation(ty, base) ==
    IF base = T_String
    THEN CASE ty = "Read" -> base
           [] ty = "Create" -> str_as_str(config.table_options.create_str_type)
           [] ty = "Update" -> str_as_str(config.table_options.update_str_type)
    ELSE IF base = T_VecU8
    THEN CASE ty = "Read" -> base
           [] ty = "Create" -> bytes_as_str(config.table_options.create_bytes_type)
           [] ty = "Update" -> bytes_as_str(config.table_options.update_bytes_type)
    ELSE base

\* A base type in the layers of array, nullable and Update, applied in this order.
Layered(ty, base, c) ==
    LET arr == IF c.is_array THEN Vec(Option(base)) ELSE base
        nul == IF c.is_nullable THEN Option(arr) ELSE arr
    IN  IF ty = "Update" THEN Option(nul) ELSE nul

\* C15 as stated: the type of every field is built in the order unsigned, array,
\* nullable, Update-wrap: the column's type mapped to the unsigned type of the same
\* width when the unsigned marker is set (a type being changed in its integer part
\* only), in Vec<Option<..>> when array, in Option when nullable, and in one more
\* Option in the Update struct.
C15_TypeOrderAsStated ==
    Done =>
        \A st \in EmittedStructs :
            \A k \in 1..Len(StructLines(st)) :
                LET l == StructLines(st)[k]
                    c == ColumnNamed(l.field_name)
                    base == IF c.is_unsigned THEN UnsignedCounterpart(c.ty) ELSE c.ty
                IN  l.field_type = Layered(st.ty, VariantRepresentation(st.ty, base), c)

\* C15 for the columns the unsigned step maps as claimed: when the type of every
\* unsigned column is the letter i followed by a width (i8 .. i128), the type of every
\* field is built in the order unsigned, array, nullable, Update-wrap.
C15_TypeOrderOfSizedIntegers ==
    (Done /\ \A c \in Range(table.columns) :
                 c.is_unsigned => c.ty \in SignedIntegerTypes \ {T_isize}) =>
        \A st \in EmittedStructs :
            \A k \in 1..Len(StructLines(st)) :
                LET l == StructLines(st)[k]
                    c == ColumnNamed(l.field_name)
                    base == IF c.is_unsigned THEN UnsignedCounterpart(c.ty) ELSE c.ty
                IN  l.field_type = Layered(st.ty, VariantRepresentation(st.ty, base), c)

\* C15 witness: the nullable unsigned array column of i32 is Option<Vec<Option<u32>>>
\* in the Read struct and Option<Option<Vec<Option<u32>>>> in the Update struct.
C15_Witness ==
    /\ Done
    /\ ColumnNamed("value") = Column("value", T_i32, TRUE, TRUE, TRUE)
    /\ StructLines(read_struct)[2].field_type = Option(Vec(Option(<<"u", "3", "2">>)))
    /\ StructLines(update_struct)[1].field_type = Option(Option(Vec(Option(<<"u", "3", "2">>))))

\* C15 failing input: the unsigned column of type isize is rendered with the type
\* "usuze", which is no type at all.
C15_FailingInput ==
    /\ Done
    /\ ColumnNamed("value") = Column("value", T_isize, FALSE, TRUE, FALSE)
    /\ StructLines(read_struct)[2].field_type = <<"u", "s", "u", "z", "e">>

\* The string and the byte representation configured for the struct of a variant.
ConfiguredStr(ty) ==
    IF ty = "Create" THEN str_as_str(config.table_options.create_str_type)
    ELSE str_as_str(config.table_options.update_str_type)

ConfiguredBytes(ty) ==
    IF ty = "Create" THEN bytes_as_str(config.table_options.create_bytes_type)
    ELSE bytes_as_str(config.table_options.update_bytes_type)

\* C16: in the Create and in the Update struct the base type of a string field is the
\* string representation configured for that struct, and the base type of a byte field
\* the byte representation configured for that struct, each struct with its own
\* choice; in the Read struct string and byte fields keep the owned types String and
\* Vec<u8>; a field of any other base type has in every struct the type it has in the
\* Read struct (in one more Option in the Update struct).
C16_Representation ==
    Done =>
        \A st \in EmittedStructs :
            \A k \in 1..Len(StructLines(st)) :
                LET l == StructLines(st)[k]
                    c == ColumnNamed(l.field_name)
                IN  CASE c.ty = T_String ->
                            l.field_type =
                                Layered(st.ty, IF st.ty = "Read" THEN T_String
                                               ELSE ConfiguredStr(st.ty), c)
                      [] c.ty = T_VecU8 ->
                            l.field_type =
                                Layered(st.ty, IF st.ty = "Read" THEN T_VecU8
                                               ELSE ConfiguredBytes(st.ty), c)
                      [] OTHER ->
                            l.field_type = (IF st.ty = "Update"
                                            THEN Option(ReadTypeOf(l.field_name))
                                            ELSE ReadTypeOf(l.field_name))

\* C16 witness: string fields as &'a str in the Create struct and as Cow<'a, str> in
\* the Update struct, byte fields as slice in Create and owned in Update; the Read
\* struct has String and Vec<u8>, and the bool column done is bool everywhere.
C16_Witness ==
    /\ Done
    /\ config.table_options.create_str_type = "Str"
    /\ config.table_options.update_str_type = "Cow"
    /\ config.table_options.create_bytes_type = "Slice"
    /\ config.table_options.update_bytes_type = "Vec"
    /\ PrimaryKeys = <<>>
    /\ FieldNames(read_struct) = <<"text", "done", "data">>
    /\ StructLines(read_struct)[1].field_type = T_String
    /\ StructLines(read_struct)[3].field_type = T_VecU8
    /\ StructLines(create_struct)[1].field_type = <<"&", "'", "a", " ", "s", "t", "r">>
    /\ StructLines(create_struct)[2].field_type = Option(T_bool)
    /\ StructLines(create_struct)[3].field_type = <<"&", "'", "a", " ", "[", "u", "8", "]">>
    /\ StructLines(update_struct)[1].field_type
           = Option(<<"C", "o", "w", "<", "'", "a", ",", " ", "s", "t", "r", ">">>)
    /\ StructLines(update_struct)[2].field_type = Option(Option(T_bool))
    /\ StructLines(update_struct)[3].field_type = Option(T_VecU8)

\* The lifetime annotations the fields of an emitted struct require: that of the
\* string representation when the struct has a string field, that of the byte
\* representation when it has a byte field.
RequiredLifetimes(st) ==
    LET kinds == {ColumnNamed(StructLines(st)[k].field_name).ty : k \in 1..Len(StructLines(st))}
        of_str == IF T_String \in kinds /\ st.ty # "Read"
                  THEN {str_get_lifetime(IF st.ty = "Create"
                                         THEN config.table_options.create_str_type
                                         ELSE config.table_options.update_str_type)}
                  ELSE {}
        of_bytes == IF T_VecU8 \in kinds /\ st.ty # "Read"
                    THEN {bytes_get_lifetime(IF st.ty = "Create"
                                             THEN config.table_options.create_bytes_type
                                             ELSE config.table_options.update_bytes_type)}
                    ELSE {}
    IN  (of_str \cup of_bytes) \ {<<>>}

\* The struct-level annotation of an emitted struct; <<>> when it has none.
StructLifetimes(st) == unwrap(st.rendered_code).lifetimes

\* C17 as stated: the annotation of an emitted Create or Update struct is present
\* exactly when a field of that struct uses a representation that requires one, and
\* is then the longest annotation its fields require; the Read struct has none.
C17_LifetimeAsStated ==
    Done =>
        \A st \in EmittedStructs :
            LET required == RequiredLifetimes(st)
            IN  /\ (StructLifetimes(st) # <<>>) <=> (required # {})
                /\ required # {}
                       => \E l \in required :
                             /\ StructLifetimes(st) = <<"<">> \o l \o <<">">>
                             /\ \A m \in required : Len(m) <= Len(l)
                /\ st.ty = "Read" => StructLifetimes(st) = <<>>

\* C17 as the code has it: the annotation of an emitted Create or Update struct is
\* the longer of the annotations of the string and the byte representation configured
\* for that struct, whether or not the struct has a field of either kind; the Read
\* struct has none.
C17_LifetimeOfConfiguration ==
    Done =>
        \A st \in EmittedStructs :
            LET configured ==
                    IF st.ty = "Read" THEN {}
                    ELSE {str_get_lifetime(IF st.ty = "Create"
                                           THEN config.table_options.create_str_type
                                           ELSE config.table_options.update_str_type),
                          bytes_get_lifetime(IF st.ty = "Create"
                                             THEN config.table_options.create_bytes_type
                                             ELSE config.table_options.update_bytes_type)}
                              \ {<<>>}
            IN  /\ (StructLifetimes(st) # <<>>) <=> (configured # {})
                /\ configured # {}
                       => \E l \in configured :
                             /\ StructLifetimes(st) = <<"<">> \o l \o <<">">>
                             /\ \A m \in configured : Len(m) <= Len(l)
                /\ RequiredLifetimes(st) \subseteq configured

\* C17 failing input: with borrowed strings configured for the Create struct, the
\* Create struct of a table whose only column is the bool column done is declared
\* with the annotation <'a> that none of its fields uses.
C17_FailingInput ==
    /\ Done
    /\ config.table_options.create_str_type = "Str"
    /\ config.table_options.create_bytes_type = "Vec"
    /\ FieldNames(create_struct) = <<"done">>
    /\ RequiredLifetimes(create_struct) = {}
    /\ StructLifetimes(create_struct) = <<"<", "'", "a", ">">>

\* The derives of a struct as a set.
DeriveSet(st) == Range(StructDerives(st))

SerdeDerives == {"serde::Serialize", "serde::Deserialize"}

FragmentKinds ==
    LET listed == SelectSeq(ret_buffer, LAMBDA f : f.kind # "default_impl")
    IN  [k \in 1..Len(listed) |-> listed[k].kind]

\* The lines of the imports of the generated file.
ImportLines == unwrap(Fragments("imports")[1].body)

\* The fixed order of the fragments of a file.
FixedOrder == <<"signature", "imports", "struct_read", "struct_create", "struct_update", "fns">>

\* `s` is `of` with some elements left out.
IsSubsequence(s, of) ==
    \E pos \in [1..Len(s) -> 1..Len(of)] :
        /\ \A i \in 1..Len(s) : s[i] = of[pos[i]]
        /\ \A i, j \in 1..Len(s) : i < j => pos[i] < pos[j]

ImportsOfKind(kind) == SelectSeq(ImportLines, LAMBDA l : l.kind = kind)

\* The pagination-result struct inlined in the function block; <<>> when it is not.
InlinedCommonStructs == unwrap(Fragments("fns")[1].body).common_structs

\* C22: with function generation enabled, the pagination-result struct is inlined
\* exactly when the once-common-structs toggle is off, and the ConnectionType alias is
\* inlined, once and as the last import line, exactly when the once-connection-type
\* toggle is off; when either toggle is on the file imports the common module, and
\* the fragment of a toggle that is on is not in the file.
C22_OnceToggles ==
    (Done /\ config.table_options.fns) =>
        /\ is_some(InlinedCommonStructs) <=> ~config.once_common_structs
        /\ is_some(InlinedCommonStructs)
               => unwrap(InlinedCommonStructs).struct_name = "PaginationResult"
        /\ (ImportsOfKind("connection_type") # <<>>) <=> ~config.once_connection_type
        /\ ImportsOfKind("connection_type") # <<>>
               => /\ Len(ImportsOfKind("connection_type")) = 1
                  /\ ImportLines[Len(ImportLines)]
                         = [kind |-> "connection_type", arg |-> config.connection_type]
        /\ (config.once_common_structs \/ config.once_connection_type)
               => ImportsOfKind("use_common") = <<[kind |-> "use_common", arg |-> config.model_path]>>
        /\ (~config.once_common_structs /\ ~config.once_connection_type)
               => ImportsOfKind("use_common") = <<>>

\* C22 witness: once-connection-type on and once-common-structs off: the file imports
\* the common module, has no ConnectionType alias and inlines the pagination-result
\* struct.
C22_Witness ==
    /\ Done
    /\ config.table_options.fns
    /\ config.once_connection_type
    /\ ~config.once_common_structs
    /\ ImportsOfKind("connection_type") = <<>>
    /\ Len(ImportsOfKind("use_common")) = 1
    /\ is_some(InlinedCommonStructs)

\* The `impl Default` blocks of the generated file.
DefaultImpls ==
    LET pushed == Fragments("default_impl")
    IN  [k \in 1..Len(pushed) |-> pushed[k].body[1]]

\* The names a Default impl initializes, in order.
InitializedNames(d) == [k \in 1..Len(d.fields_to_defaults) |-> d.fields_to_defaults[k].name]

\* The struct a Default impl is for.
StructOfDefaultImpl(d) ==
    IF d.struct_name = <<"Create", table.struct_name>> THEN create_struct ELSE read_struct

\* C23 as stated: with the default-impl option on, every `impl Default for S` of the
\* file initializes exactly the fields of struct S, each once and in field order: the
\* one for the Create struct the Create struct's fields, the one for the Read struct
\* all columns; nullable fields default to None.
C23_DefaultImplAsStated ==
    (Done /\ config.default_impl) =>
        \A k \in 1..Len(DefaultImpls) :
            LET d == DefaultImpls[k]
            IN  /\ InitializedNames(d) = FieldNames(StructOfDefaultImpl(d))
                /\ \A i \in 1..Len(d.fields_to_defaults) :
                      ColumnNamed(d.fields_to_defaults[i].name).is_nullable
                          => d.fields_to_defaults[i].typ_default = "None"

\* C23 as the code has it: with the default-impl option on, the file ends with the
\* Default impl for the Read struct, preceded by one for the Create struct exactly when
\* the Create struct is emitted; each of them initializes every column of the table,
\* once and in column order, nullable columns with None.  That is the field list of
\* the Read struct, and the field list of the Create struct only when no column of the
\* table is autogenerated.
C23_DefaultImplOfColumns ==
    (Done /\ config.default_impl) =>
        /\ Len(DefaultImpls) = (IF has_code(create_struct) THEN 2 ELSE 1)
        /\ DefaultImpls[Len(DefaultImpls)].struct_name = <<table.struct_name>>
        /\ has_code(create_struct) => DefaultImpls[1].struct_name = <<"Create", table.struct_name>>
        /\ \A k \in 1..Len(DefaultImpls) :
              LET d == DefaultImpls[k]
              IN  /\ InitializedNames(d) = ColumnNamesWithout({})
                  /\ \A i \in 1..Len(d.fields_to_defaults) :
                        ColumnNamed(d.fields_to_defaults[i].name).is_nullable
                            => d.fields_to_defaults[i].typ_default = "None"
        /\ has_code(create_struct)
               => ((InitializedNames(DefaultImpls[1]) = FieldNames(create_struct))
                      <=> (\A c \in Range(table.columns) :
                              c.name \notin config.table_options.autogenerated_columns))

\* C23 failing input: with the column id autogenerated, the Create struct of the table
\* (id, text, done) has the fields text and done, and its Default impl initializes
\* id, text and done.
C23_FailingInput ==
    /\ Done
    /\ config.default_impl
    /\ config.table_options.autogenerated_columns = {"id"}
    /\ FieldNames(create_struct) = <<"text", "done">>
    /\ DefaultImpls[1].struct_name = <<"Create", table.struct_name>>
    /\ InitializedNames(DefaultImpls[1]) = <<"id", "text", "done">>

\* The struct names the function block refers to: the struct the impl block is for,
\* and the payload of create and update.
ReferredStructs ==
    IF Fragments("fns") = <<>> THEN {}
    ELSE {unwrap(Fragments("fns")[1].body).impl_for}
         \cup {unwrap(EmittedFns[k].item) : k \in {i \in 1..Len(EmittedFns) : is_some(EmittedFns[i].item)}}

\* The names of the structs the file declares.
DeclaredStructs ==
    {unwrap(st.rendered_code).struct_name : st \in EmittedStructs}
    \cap {unwrap(ret_buffer[k].body[1]).struct_name :
              k \in {i \in 1..Len(ret_buffer) :
                        /\ ret_buffer[i].kind \in {"struct_read", "struct_create", "struct_update"}
                        /\ is_some(ret_buffer[i].body[1])}}

\* C24 as stated: the file refers to no struct it does not declare: a create function
\* with a payload only with the Create struct, an update function only with the Update
\* struct, and the impl block for the Read struct's name only with the Read struct,
\* also for a table without columns.
C24_NoDanglingAsStated ==
    Done =>
        /\ ReferredStructs \subseteq DeclaredStructs
        /\ \A k \in 1..Len(FnsNamed("create")) :
              is_some(FnsNamed("create")[k].item) => StructText("Create") # <<>>
        /\ FnsNamed("update") # <<>> => StructText("Update") # <<>>
        /\ Fragments("fns") # <<>> => StructText("Read") # <<>>

\* C24 for the payloads, and for the impl block of a table with a column: a create
\* function with a payload is emitted only with the Create struct it names, an update
\* function only with the Update struct it names, and for a table with at least one
\* column the impl block only with the Read struct; the impl block of a table without
\* columns is emitted without the Read struct.
C24_NoDanglingPayload ==
    Done =>
        /\ \A k \in 1..Len(FnsNamed("create")) :
              is_some(FnsNamed("create")[k].item)
                  => /\ StructText("Create") # <<>>
                     /\ unwrap(FnsNamed("create")[k].item) \in DeclaredStructs
        /\ \A k \in 1..Len(FnsNamed("update")) :
              /\ StructText("Update") # <<>>
              /\ unwrap(FnsNamed("update")[k].item) \in DeclaredStructs
        /\ (Fragments("fns") # <<>> /\ table.columns # <<>>)
               => /\ StructText("Read") # <<>>
                  /\ ReferredStructs \subseteq DeclaredStructs
        /\ (Fragments("fns") # <<>> /\ table.columns = <<>>)
               => /\ StructText("Read") = <<>>
                  /\ DeclaredStructs = {}

\* C24 failing input: a table without columns, not readonly, with function
\* generation: the file declares no struct and has the impl block for Todos with
\* create, read and delete.
C24_FailingInput ==
    /\ Done
    /\ config.table_options.fns
    /\ ~config.table_options.readonly
    /\ table.columns = <<>>
    /\ ~has_code(read_struct)
    /\ DeclaredStructs = {}
    /\ ReferredStructs = {<<"Todos">>}
    /\ {"create", "read", "delete"} \subseteq EmittedFnNames

====
